---- MODULE Spec2Model ----
(***************************************************************************)
(* WebToEpubComics.py: download_manga fetches the index page of a comic,   *)
(* then for every chapter follows the chain of chapter pages, stores the   *)
(* images of each page as numbered files and packs them into one EPUB.     *)
(*                                                                         *)
(* Strings that the program takes apart (titles, archive names) are        *)
(* sequences of one-character strings; image file names are strings.       *)
(* A URL of the site is the number of the page it names; None is 0.        *)
(* The URL of the k-th image of page p is <<p, k>>, and the bytes served   *)
(* for an image URL are identified with that URL.                          *)
(***************************************************************************)
EXTENDS Integers, Sequences, FiniteSets, TLC

\* ---- bounds of the model ------------------------------------------------
NumPages == 2       \* chapter pages the site has
MaxImgs == 2        \* img elements with a source on one chapter page
MaxChapters == 2    \* a.comics-chapters__item elements of the index page

None == 0
Pages == 1..NumPages
\* page requests of one download_images call the model follows (a cyclic
\* chain requests pages for ever)
MaxVisits == NumPages + 1

\* ---- strings ------------------------------------------------------------
UnknownManga == <<"U", "M">>          \* "未知漫畫"
UnknownAuthor == <<"U", "A">>         \* "未知作者"
UnknownChapter == <<"U", "C">>        \* "未知章節"
Absent == <<"">>                      \* select_one found no element
MangaTexts == {<<" ", "M", " ", "1", " ">>}     \* text of the h1 element
AuthorTexts == {<<"A", " ">>}                   \* text of the h2 element
ChapterNames == {<<"C", "h", " ", " ", "1", ":", "a", "/", "b", "?">>}  \* text of a span

Reserved == {"<", ">", ":", "\"", "/", "\\", "|", "?", "*"}
Whitespace == {" ", "\t", "\n", "\r"}

IsReserved(c) == c \in Reserved

\* re.sub(r'[<>:"/\\|?*]', '', title)
RemoveReserved(s) == SelectSeq(s, LAMBDA c : ~IsReserved(c))

\* re.sub(r'\s+', '_', title): every maximal run of whitespace becomes one "_"
RECURSIVE CollapseWhitespace(_)
CollapseWhitespace(s) ==
    IF s = <<>> THEN <<>>
    ELSE IF Head(s) \in Whitespace
         THEN IF Len(s) > 1 /\ s[2] \in Whitespace
              THEN CollapseWhitespace(Tail(s))
              ELSE <<"_">> \o CollapseWhitespace(Tail(s))
         ELSE <<Head(s)>> \o CollapseWhitespace(Tail(s))

\* str.strip(): leading and trailing whitespace removed
RECURSIVE lstrip(_)
lstrip(s) == IF s # <<>> /\ Head(s) \in Whitespace THEN lstrip(Tail(s)) ELSE s

RECURSIVE rstrip(_)
rstrip(s) ==
    IF s # <<>> /\ s[Len(s)] \in Whitespace
    THEN rstrip(SubSeq(s, 1, Len(s) - 1))
    ELSE s

strip(s) == rstrip(lstrip(s))

slugify_filename(title) == CollapseWhitespace(RemoveReserved(title))

\* f"{idx:03}.jpg": at least three digits, zero padded
Zfill3(idx) ==
    IF idx < 10 THEN "00" \o ToString(idx)
    ELSE IF idx < 100 THEN "0" \o ToString(idx)
    ELSE ToString(idx)

ImageFileName(idx) == Zfill3(idx) \o ".jpg"

\* os.path.join(output_dir, f"{idx:03}.jpg")
FilePath(output_dir, idx) == [dir |-> output_dir, name |-> ImageFileName(idx)]

\* os.path.basename(path)
basename(path) == path.name

\* f"{manga_title}_{volume_title}.epub", the file name of the archive
EpubFileName(manga_title_, volume_title) ==
    manga_title_ \o <<"_">> \o volume_title \o <<".", "e", "p", "u", "b">>

\* ---- responses of the index page ------------------------------------------
\* One response to requests.get(index_url): its status and what the three
\* selectors find in it.
IndexItems ==
    [span : ChapterNames \cup {Absent}, href : Pages \cup {None}]

SeqsUpTo(S, n) == UNION {[1..m -> S] : m \in 0..n}

IndexResponses ==
    [ok : BOOLEAN,
     h1 : MangaTexts \cup {Absent},
     h2 : AuthorTexts \cup {Absent},
     items : SeqsUpTo(IndexItems, MaxChapters)]

fetch_manga_title(resp) ==
    IF resp.ok
    THEN IF resp.h1 # Absent THEN strip(resp.h1) ELSE UnknownManga
    ELSE UnknownManga

fetch_manga_author(resp) ==
    IF resp.ok
    THEN IF resp.h2 # Absent THEN strip(resp.h2) ELSE UnknownAuthor
    ELSE UnknownAuthor

ChapterEntry(item) ==
    [title |-> IF item.span # Absent THEN item.span ELSE UnknownChapter,
     url |-> item.href]

RECURSIVE ChapterData(_)
ChapterData(items) ==
    IF items = <<>> THEN <<>>
    ELSE IF Head(items).href # None
         THEN <<ChapterEntry(Head(items))>> \o ChapterData(Tail(items))
         ELSE ChapterData(Tail(items))

fetch_chapter_links_and_titles(resp) ==
    IF resp.ok THEN ChapterData(resp.items) ELSE <<>>


\* ---- state ----------------------------------------------------------------
VARIABLES
    pc,             \* where download_manga stands
    site,           \* page -> document the site serves for it, once requested
    index_requests, \* number of requests.get(index_url) so far
    manga_title, manga_author, chapters,
    ci,             \* position of the for loop in chapters
    built,          \* calls of create_volume_epub so far
    title, chapter_url, safe_title,     \* locals of the for loop body
    dir_exists,     \* os.path.exists(temp_image_dir)
    out_exists,     \* os.path.exists(OUTPUT_DIR)
    current_url, image_paths,           \* locals of download_images
    soup,           \* page whose response download_images is working on
    start, k,       \* enumerate(image_urls, start=...): its start, its position
    fs,             \* name -> bytes of the files written by this call
    requested,      \* pages requested by this call, in order
    pageFailed,     \* this call's last page request failed
    extracted,      \* image URLs extracted by this call, in order
    failedAt,       \* positions in extracted whose image request failed
    sources,        \* sources[i]: image URL whose bytes image_paths[i] was written for
    book,           \* the EpubBook under construction
    epub_file,
    written         \* names of the archives this run has written

vars == <<pc, site, index_requests, manga_title, manga_author, chapters,
          ci, built, title, chapter_url, safe_title, dir_exists, out_exists,
          current_url, image_paths, soup, start, k, fs, requested, pageFailed,
          extracted, failedAt, sources, book, epub_file, written>>

siteVars == <<site>>
indexVars == <<index_requests, manga_title, manga_author, chapters>>
loopVars == <<ci, title, chapter_url, safe_title>>
dlVars == <<current_url, image_paths, soup, start, k, fs, requested, pageFailed,
            extracted, failedAt, sources>>
epubVars == <<book, epub_file, written>>

\* A chapter page as download_images reads it: the number of img elements
\* that carry a src or data-src, and the page named by the href of the
\* next-page link (None: no such link). The site serves the same document
\* for the same URL during one call of download_images; NotServed marks a
\* page this call has not requested yet.
PageDocs == [imgs : 0..MaxImgs, next : Pages \cup {None}]
NotServed == [imgs |-> -1, next |-> -1]
Serves(p, doc) == site[p] = NotServed \/ site[p] = doc

NoBook == [refs |-> <<>>, items |-> <<>>]
NoFiles == [n \in {} |-> None]

\* the locals of download_images at its entry (lines 69-70)
DlEntry(url) ==
    /\ current_url' = url
    /\ image_paths' = <<>>
    /\ soup' = None
    /\ start' = 1
    /\ k' = 1
    /\ fs' = NoFiles
    /\ requested' = <<>>
    /\ pageFailed' = FALSE
    /\ extracted' = <<>>
    /\ failedAt' = {}
    /\ sources' = <<>>

Init ==
    /\ pc = "title"
    /\ site = [p \in Pages |-> NotServed]
    /\ index_requests = 0
    /\ manga_title = <<>>
    /\ manga_author = <<>>
    /\ chapters = <<>>
    /\ ci = 0
    /\ built = 0
    /\ title = <<>>
    /\ chapter_url = None
    /\ safe_title = <<>>
    /\ dir_exists = FALSE
    /\ out_exists \in BOOLEAN
    /\ current_url = None
    /\ image_paths = <<>>
    /\ soup = None
    /\ start = 1
    /\ k = 1
    /\ fs = NoFiles
    /\ requested = <<>>
    /\ pageFailed = FALSE
    /\ extracted = <<>>
    /\ failedAt = {}
    /\ sources = <<>>
    /\ book = NoBook
    /\ epub_file = <<>>
    /\ written = {}

\* ---- download_manga: the three requests of the index page -------------------
FetchTitle ==
    /\ pc = "title"
    /\ \E resp \in IndexResponses :
        /\ manga_title' = fetch_manga_title(resp)
        /\ index_requests' = index_requests + 1
    /\ pc' = "author"
    /\ UNCHANGED <<siteVars, manga_author, chapters, loopVars, built,
                   dir_exists, out_exists, dlVars, epubVars>>

FetchAuthor ==
    /\ pc = "author"
    /\ \E resp \in IndexResponses :
        /\ manga_author' = fetch_manga_author(resp)
        /\ index_requests' = index_requests + 1
    /\ pc' = "chapters"
    /\ UNCHANGED <<siteVars, manga_title, chapters, loopVars, built,
                   dir_exists, out_exists, dlVars, epubVars>>

FetchChapters ==
    /\ pc = "chapters"
    /\ \E resp \in IndexResponses :
        /\ chapters' = fetch_chapter_links_and_titles(resp)
        /\ index_requests' = index_requests + 1
    /\ pc' = "for"
    /\ UNCHANGED <<siteVars, manga_title, manga_author, loopVars, built,
                   dir_exists, out_exists, dlVars, epubVars>>

\* ---- download_manga: the loop over the chapters -----------------------------
\* for title, chapter_url in chapters: lines 178-181 up to the entry of
\* download_images. The image directory of the chapter may be left over from
\* an earlier chapter or run; it lies inside OUTPUT_DIR.
NextChapter ==
    /\ pc = "for"
    /\ ci < Len(chapters)
    /\ ci' = ci + 1
    /\ title' = chapters[ci + 1].title
    /\ chapter_url' = chapters[ci + 1].url
    /\ safe_title' = slugify_filename(chapters[ci + 1].title)
    /\ dir_exists' \in {b \in BOOLEAN : b => out_exists}
    /\ DlEntry(chapters[ci + 1].url)
    /\ site' = [p \in Pages |-> NotServed]
    /\ pc' = "while"
    /\ UNCHANGED <<indexVars, built, out_exists, epubVars>>

EndOfChapters ==
    /\ pc = "for"
    /\ ci = Len(chapters)
    /\ pc' = "done"
    /\ UNCHANGED <<siteVars, indexVars, loopVars, built, dir_exists, out_exists,
                   dlVars, epubVars>>


\* ---- download_images --------------------------------------------------------
\* image_urls of the response of page p (lines 78-82), in document order
ImageUrls(doc, p) == [i \in 1..doc.imgs |-> <<p, i>>]

\* enumerate(image_urls, start=len(image_paths) + 1): the start, taken once
\* when the for loop over the images of a page begins
EnumStart_one(paths) == 1           \* numbering restarts on every page
EnumStart_len(paths) == Len(paths)  \* numbering starts at 0
EnumStart(paths) == Len(paths) + 1

\* the idx enumerate gives to the image at position pos of the page
EnumIdx(start_, pos) == start_ + pos - 1

\* current_url after the next-page link of page p was looked up (lines 99-103)
NextPageUrl_none(doc) == None       \* the next-page link is never found
NextPageUrl(doc) == IF doc.next # None THEN doc.next ELSE None

\* current_url after the request of page url failed (line 106)
UrlAfterPageFailure_retry(url) == url   \* the failed page is requested again
UrlAfterPageFailure(url) == None

\* with open(file_path, 'wb') as f: f.write(content)
WriteFile(files, name, content) ==
    [n \in DOMAIN files \cup {name} |-> IF n = name THEN content ELSE files[n]]

\* while current_url: session.get fails or raise_for_status raises; the
\* except of line 104 logs and ends the loop
FetchPageFail ==
    /\ pc = "while"
    /\ current_url # None
    /\ Len(requested) < MaxVisits
    /\ requested' = Append(requested, current_url)
    /\ pageFailed' = TRUE
    /\ current_url' = UrlAfterPageFailure(current_url)
    /\ pc' = "while"
    /\ UNCHANGED <<siteVars, indexVars, loopVars, built, dir_exists, out_exists,
                   image_paths, soup, start, k, fs, extracted, failedAt, sources,
                   epubVars>>

\* the page is served, its image URLs are extracted and the image directory
\* exists or is created (lines 74-87)
FetchPage ==
    /\ pc = "while"
    /\ current_url # None
    /\ Len(requested) < MaxVisits
    /\ \E doc \in PageDocs :
        /\ Serves(current_url, doc)
        /\ site' = [site EXCEPT ![current_url] = doc]
        /\ extracted' = extracted \o ImageUrls(doc, current_url)
    /\ requested' = Append(requested, current_url)
    /\ pageFailed' = FALSE
    /\ soup' = current_url
    /\ dir_exists' = TRUE
    /\ out_exists' = TRUE
    /\ start' = EnumStart(image_paths)
    /\ k' = 1
    /\ pc' = "images"
    /\ UNCHANGED <<indexVars, loopVars, built, current_url, image_paths,
                   fs, failedAt, sources, epubVars>>

\* the page is served but os.makedirs(output_dir) raises OSError, which no
\* except clause of download_images or download_manga catches
MakeImageDirRaises ==
    /\ pc = "while"
    /\ current_url # None
    /\ Len(requested) < MaxVisits
    /\ ~dir_exists
    /\ \E doc \in PageDocs :
        /\ Serves(current_url, doc)
        /\ site' = [site EXCEPT ![current_url] = doc]
        /\ extracted' = extracted \o ImageUrls(doc, current_url)
    /\ requested' = Append(requested, current_url)
    /\ pageFailed' = FALSE
    /\ soup' = current_url
    /\ pc' = "raised"
    /\ UNCHANGED <<indexVars, loopVars, built, dir_exists, out_exists,
                   current_url, image_paths, start, k, fs, failedAt, sources,
                   epubVars>>

\* one image is fetched and written (lines 89-94)
DownloadImage ==
    /\ pc = "images"
    /\ k <= site[soup].imgs
    /\ LET idx == EnumIdx(start, k)
           file_path == FilePath(safe_title, idx)
           url == ImageUrls(site[soup], soup)[k]
       IN /\ fs' = WriteFile(fs, basename(file_path), url)
          /\ image_paths' = Append(image_paths, file_path)
          /\ sources' = Append(sources, url)
    /\ k' = k + 1
    /\ pc' = "images"
    /\ UNCHANGED <<siteVars, indexVars, loopVars, built, dir_exists, out_exists,
                   current_url, soup, start, requested, pageFailed, extracted,
                   failedAt, epubVars>>

\* the request of one image fails: logged, the image is skipped (lines 95-96)
DownloadImageFail ==
    /\ pc = "images"
    /\ k <= site[soup].imgs
    /\ failedAt' = failedAt \cup {Len(extracted) - site[soup].imgs + k}
    /\ k' = k + 1
    /\ pc' = "images"
    /\ UNCHANGED <<siteVars, indexVars, loopVars, built, dir_exists, out_exists,
                   current_url, image_paths, soup, start, fs, requested,
                   pageFailed, extracted, sources, epubVars>>

\* the image is fetched but open() or write() raises OSError, which is no
\* RequestException: neither except clause catches it
WriteImageRaises ==
    /\ pc = "images"
    /\ k <= site[soup].imgs
    /\ pc' = "raised"
    /\ UNCHANGED <<siteVars, indexVars, loopVars, built, dir_exists, out_exists,
                   dlVars, epubVars>>

\* the images of the page are done: follow the next-page link (lines 99-103)
FollowNext ==
    /\ pc = "images"
    /\ k > site[soup].imgs
    /\ current_url' = NextPageUrl(site[soup])
    /\ pc' = "while"
    /\ UNCHANGED <<siteVars, indexVars, loopVars, built, dir_exists, out_exists,
                   image_paths, soup, start, k, fs, requested, pageFailed,
                   extracted, failedAt, sources, epubVars>>

\* while current_url is false: return image_paths, and download_manga calls
\* create_volume_epub(manga_title, title, image_paths, OUTPUT_DIR)
ReturnImages ==
    /\ pc = "while"
    /\ current_url = None
    /\ built' = built + 1
    /\ pc' = "book"
    /\ UNCHANGED <<siteVars, indexVars, loopVars, dir_exists, out_exists,
                   dlVars, epubVars>>


\* ---- create_volume_epub -----------------------------------------------------
\* content: one <img src=basename> per path, in order (lines 119-124)
ContentRefs(paths) == [i \in 1..Len(paths) |-> basename(paths[i])]

\* the uids of the EpubItems added by the loop of lines 127-138, in order,
\* when the files at the positions in unreadable cannot be opened or read
RECURSIVE EmbeddedItems(_, _, _)
EmbeddedItems(paths, i, unreadable) ==
    IF i > Len(paths) THEN <<>>
    ELSE IF i \in unreadable
         THEN EmbeddedItems(paths, i + 1, unreadable)
         ELSE <<basename(paths[i])>> \o EmbeddedItems(paths, i + 1, unreadable)

\* lines 113-143: the book, its content document and its image resources
BuildBook ==
    /\ pc = "book"
    /\ \E unreadable \in SUBSET (1..Len(image_paths)) :
        book' = [refs |-> ContentRefs(image_paths),
                 items |-> EmbeddedItems(image_paths, 1, unreadable)]
    /\ pc' = "outdir"
    /\ UNCHANGED <<siteVars, indexVars, loopVars, built, dir_exists, out_exists,
                   dlVars, epub_file, written>>

\* lines 145-148: the output directory exists or is created
MakeOutputDir ==
    /\ pc = "outdir"
    /\ out_exists' = TRUE
    /\ epub_file' = EpubFileName(manga_title, title)
    /\ pc' = "write"
    /\ UNCHANGED <<siteVars, indexVars, loopVars, built, dir_exists, dlVars,
                   book, written>>

\* os.makedirs(output_dir) of line 146 raises OSError outside any try
MakeOutputDirRaises ==
    /\ pc = "outdir"
    /\ ~out_exists
    /\ pc' = "raised"
    /\ UNCHANGED <<siteVars, indexVars, loopVars, built, dir_exists, out_exists,
                   dlVars, epubVars>>

\* epub.write_epub succeeds (lines 149-151); create_volume_epub returns
WriteEpub ==
    /\ pc = "write"
    /\ written' = written \cup {epub_file}
    /\ book' = NoBook
    /\ epub_file' = <<>>
    /\ pc' = "for"
    /\ UNCHANGED <<siteVars, indexVars, loopVars, built, dir_exists, out_exists,
                   dlVars>>

\* epub.write_epub raises: logged (lines 152-153); create_volume_epub returns
WriteEpubFail ==
    /\ pc = "write"
    /\ book' = NoBook
    /\ epub_file' = <<>>
    /\ pc' = "for"
    /\ UNCHANGED <<siteVars, indexVars, loopVars, built, dir_exists, out_exists,
                   dlVars, written>>

Next ==
    \/ FetchTitle
    \/ FetchAuthor
    \/ FetchChapters
    \/ NextChapter
    \/ EndOfChapters
    \/ FetchPageFail
    \/ FetchPage
    \/ MakeImageDirRaises
    \/ DownloadImage
    \/ DownloadImageFail
    \/ WriteImageRaises
    \/ FollowNext
    \/ ReturnImages
    \/ BuildBook
    \/ MakeOutputDir
    \/ MakeOutputDirRaises
    \/ WriteEpub
    \/ WriteEpubFail

Spec == Init /\ [][Next]_vars


\* ---- properties ---------------------------------------------------------------
Range(f) == {f[i] : i \in DOMAIN f}
Distinct(f) == \A i, j \in DOMAIN f : i # j => f[i] # f[j]
Last(f) == f[Len(f)]

\* download_images has returned image_paths for the current chapter
Returned == pc \in {"book", "outdir", "write"}

\* the elements of seq at the positions from i on that are not in drop
RECURSIVE Kept(_, _, _)
Kept(seq, i, drop) ==
    IF i > Len(seq) THEN <<>>
    ELSE IF i \in drop THEN Kept(seq, i + 1, drop)
         ELSE <<seq[i]>> \o Kept(seq, i + 1, drop)

\* the image URLs of the requested pages from the i-th on, page after page
RECURSIVE PagesImages(_, _)
PagesImages(reqs, i) ==
    IF i > Len(reqs) THEN <<>>
    ELSE ImageUrls(site[reqs[i]], reqs[i]) \o PagesImages(reqs, i + 1)

\* the requests of this call follow the next-page links from the chapter URL
FollowsChain ==
    /\ requested # <<>> => requested[1] = chapter_url
    /\ \A i \in 1..(Len(requested) - 1) :
          requested[i + 1] = site[requested[i]].next

Revisited == ~Distinct(requested)

\* C1: whatever fails while a chapter is processed, the run does not abort:
\* no exception leaves download_manga, and when the run is over every chapter
\* of the list has reached create_volume_epub.
C1_NoFailureAbortsRun ==
    /\ pc # "raised"
    /\ pc = "done" => built = Len(chapters)

\* C2: the files download_images returns are numbered 001, 002, ..., n
\* without gap or repeat, in the order the images were extracted.
C2_ContiguousNumbering ==
    Returned =>
        /\ \A i \in 1..Len(image_paths) :
              basename(image_paths[i]) = ImageFileName(i)
        /\ sources = Kept(extracted, 1, failedAt)

\* C3: when every request succeeds, download_images returns one file per
\* image of the chain of pages P1 -> P2 -> ... -> Pk, in document order: the
\* i-th returned file is <i>.jpg and holds the i-th image of the concatenation.
C3_ConcatenationOfPages ==
    (Returned /\ ~pageFailed /\ failedAt = {}) =>
        /\ FollowsChain
        /\ site[Last(requested)].next = None
        /\ extracted = PagesImages(requested, 1)
        /\ Len(image_paths) = Len(extracted)
        /\ \A i \in 1..Len(image_paths) :
              /\ image_paths[i] = FilePath(safe_title, i)
              /\ fs[basename(image_paths[i])] = extracted[i]

C3_Witness ==
    /\ Returned /\ ~pageFailed /\ failedAt = {}
    /\ Len(requested) >= 2
    /\ site[requested[1]].imgs >= 2
    /\ site[requested[2]].imgs >= 1

\* C4: once the request of a chapter page has failed, current_url is None,
\* no further page is requested and image_paths stays what it was when the
\* request failed (empty when it was the first page); that list is returned.
C4_PageFailureKeepsPartial ==
    [][pageFailed' =>
          /\ current_url' = None
          /\ image_paths' = image_paths
          /\ pageFailed => requested' = requested
          /\ Len(requested') = 1 => image_paths' = <<>>
          /\ \A i \in 1..Len(sources') :
                \E j \in 1..(Len(requested') - 1) : sources'[i][1] = requested'[j]
          /\ pc' # "images"]_vars

C4_Witness ==
    /\ pc = "book"
    /\ pageFailed
    /\ Len(requested) >= 2
    /\ Len(image_paths) >= 1

\* C5: the index page is requested exactly once in a run of download_manga.
C5_IndexRequestedOnce ==
    pc \notin {"title", "author", "chapters"} => index_requests = 1

\* C6: the archive of a chapter is named <mangaTitle>_<slugify(title)>.epub.
C6_ArchiveNamedFromSanitizedTitle ==
    pc = "write" =>
        epub_file = EpubFileName(manga_title, slugify_filename(title))

\* the first page of the chapter was served and its images are all handled
FirstPageDone ==
    /\ Len(requested) = 1
    /\ ~pageFailed
    /\ pc \in {"images", "while", "book", "outdir", "write"}
    /\ pc = "images" => k > site[soup].imgs

\* C7: for the n image URLs of one page of which those at the positions F
\* fail, image k is written to <k as 3 digits>.jpg exactly for k not in F,
\* and exactly these paths are returned, in increasing order of k.
C7_FailedIndexSkipped ==
    FirstPageDone =>
        LET n == site[soup].imgs
            ok == (1..n) \ failedAt
        IN /\ image_paths = Kept([i \in 1..n |-> FilePath(safe_title, i)], 1, failedAt)
           /\ Len(image_paths) = n - Cardinality(failedAt)
           /\ DOMAIN fs = {ImageFileName(i) : i \in ok}
           /\ \A i \in ok : fs[ImageFileName(i)] = <<soup, i>>

C7_Witness ==
    /\ FirstPageDone
    /\ Returned
    /\ site[soup].imgs = MaxImgs
    /\ failedAt = {1}

\* C8: download_images requests the pages along the next-page links and
\* returns only after a page without next-page link or a failed page request;
\* a chain that ends requests every page once, and once a link has led back
\* to a requested page the loop returns only if a page request fails.
C8_NoCycleGuard ==
    /\ FollowsChain
    /\ Returned => (pageFailed \/ site[Last(requested)].next = None)
    /\ (Returned /\ ~pageFailed) => Distinct(requested)
    /\ (Revisited /\ ~pageFailed) => ~Returned
    /\ (pc = "while" /\ requested # <<>> /\ ~pageFailed) =>
          current_url = site[Last(requested)].next

C8_Witness ==
    /\ pc = "while"
    /\ Revisited
    /\ ~pageFailed
    /\ current_url # None
    /\ Len(requested) = MaxVisits

\* C9: no file is written twice in one call: the returned paths are distinct
\* and each still holds the image it was written for.
C9_NoFileWrittenTwice ==
    Returned =>
        /\ Distinct(image_paths)
        /\ \A i \in 1..Len(image_paths) :
              fs[basename(image_paths[i])] = sources[i]

\* C10: the images the content document references are the images embedded
\* in the book, each embedded once.
C10_ReferencesAreEmbedded ==
    pc \in {"outdir", "write"} =>
        /\ Range(book.refs) = Range(book.items)
        /\ Distinct(book.items)

====
